---- MODULE Spec2Model ----
\* One invocation of the Ansible module database/misc/mongodb_query.py:
\* the module-level driver import, AnsibleModule's argument parsing, the
\* dependency check, _fix_sort_parameter, MongoClient, find, json_util.dumps,
\* print and sys.exit, together with the exceptions each step can raise.
EXTENDS Integers, Sequences, FiniteSets, TLC

\* ---------------------------------------------------------------- bounds
MaxSortLen == 2
NumDocs == 3
MaxSkip == 2
MaxLimit == 1

\* ------------------------------------------------- python values, strings
\* An optional value: None is Python's None (or an absent argument).
None == <<>>
Some(x) == <<x>>
Get(o) == o[1]

\* Strings whose letters matter are sequences of characters.
LowerLetters == <<"a","b","c","d","e","f","g","h","i","j","k","l","m",
                  "n","o","p","q","r","s","t","u","v","w","x","y","z">>
UpperLetters == <<"A","B","C","D","E","F","G","H","I","J","K","L","M",
                  "N","O","P","Q","R","S","T","U","V","W","X","Y","Z">>

\* str.upper() on one character
UpperChar(c) ==
  IF \E i \in DOMAIN LowerLetters : LowerLetters[i] = c
  THEN UpperLetters[CHOOSE i \in DOMAIN LowerLetters : LowerLetters[i] = c]
  ELSE c

\* str.upper()
Upper(s) == [i \in DOMAIN s |-> UpperChar(s[i])]

\* the literals "ASCENDING" and "DESCENDING" of lines 147 and 149
StrASCENDING == <<"A","S","C","E","N","D","I","N","G">>
StrDESCENDING == <<"D","E","S","C","E","N","D","I","N","G">>

\* pymongo.ASCENDING and pymongo.DESCENDING
ASCENDING == 1
DESCENDING == -1

\* ------------------------------------------------------ the driver import
\* The names the primary import block binds, statement by statement.
PrimaryImports == << {"json_util"}, {"ASCENDING", "DESCENDING"},
                     {"ConnectionFailure"}, {"OperationFailure"},
                     {"PyMongoVersion"}, {"MongoClient"} >>

RECURSIVE BoundBefore(_)
\* the names bound by the first n statements of the primary block
BoundBefore(n) == IF n = 0 THEN {} ELSE BoundBefore(n - 1) \cup PrimaryImports[n]

\* The module-level try/except: failAt = 0 when no import of the primary block
\* raises ImportError, else the statement that raises; legacy tells whether
\* "from pymongo import Connection as MongoClient" succeeds.
ImportBound(failAt, legacy) ==
  IF failAt = 0 THEN BoundBefore(Len(PrimaryImports))
  ELSE BoundBefore(failAt - 1) \cup (IF legacy THEN {"MongoClient"} ELSE {})

\* the class the name MongoClient refers to: pymongo.MongoClient, or the legacy
\* pymongo.Connection
ImportClient(failAt, legacy) ==
  IF failAt = 0 THEN "pymongo.MongoClient"
  ELSE IF legacy THEN "pymongo.Connection" ELSE "unbound"

ImportFound(failAt, legacy) == failAt = 0 \/ legacy

\* -------------------------------------------------------------- the inputs
\* [field, direction] pairs of the sort argument; the tokens are "ASCENDING",
\* "Ascending", "descending" and the unknown "Asc".
SortItems == { <<"name", StrASCENDING>>,
               <<"name", <<"A","s","c","e","n","d","i","n","g">> >>,
               <<"version", <<"d","e","s","c","e","n","d","i","n","g">> >>,
               <<"version", <<"A","s","c">> >> }

RECURSIVE SeqsUpTo(_, _)
SeqsUpTo(S, n) ==
  IF n = 0 THEN { <<>> }
  ELSE LET shorter == SeqsUpTo(S, n - 1)
       IN shorter \cup { Append(s, x) : s \in { t \in shorter : Len(t) = n - 1 }, x \in S }

SortArgs == { None } \cup { Some(s) : s \in SeqsUpTo(SortItems, MaxSortLen) }

\* a mapping is a set of <<key, value>> pairs
QueryArgs == { None, Some({ <<"os", "linux">> }) }
ProjectionArgs == { None, Some({ <<"name", TRUE>>, <<"_id", FALSE>> }) }

\* <<database, db>>: absent, empty, given, given by the alias
NameArgs == { <<None, None>>, <<Some(""), None>>, <<Some("accounts"), None>>,
              <<None, Some("accounts")>> }

\* the arguments of one invocation; None is an argument that is not given
Args ==
  { [ database |-> n[1], db |-> n[2], collection |-> c, query |-> q,
      projection |-> p, skip |-> sk, limit |-> li, sort |-> so ] :
      n \in NameArgs, c \in { None, Some(""), Some("software") },
      q \in QueryArgs, p \in ProjectionArgs,
      sk \in { None } \cup { Some(i) : i \in 1..MaxSkip },
      li \in { None } \cup { Some(i) : i \in 1..MaxLimit },
      so \in SortArgs }

\* str(e) of a ConnectionFailure
DriverMessages == { "connection refused", "auth failed" }

\* ------------------------------------------------------ AnsibleModule(...)
\* argument_spec: aliases and defaults
ModuleParams(a) ==
  [ connection_string |-> "mongodb://localhost/",
    database |-> IF a.db # None THEN a.db ELSE a.database,
    collection |-> a.collection,
    query |-> IF a.query = None THEN {} ELSE Get(a.query),
    projection |-> a.projection,
    skip |-> IF a.skip = None THEN 0 ELSE Get(a.skip),
    limit |-> IF a.limit = None THEN 0 ELSE Get(a.limit),
    sort |-> a.sort ]

\* argument_spec: required=True
RequiredArguments == { "database", "collection" }

\* a check that takes only database for required
MissingRequiredDatabaseOnly(p) == { k \in { "database" } : p[k] = None }

\* the required arguments the invocation does not give
MissingRequired(p) == { k \in RequiredArguments : p[k] = None }

\* the messages of fail_json
MsgMissing(names) == << "missing required arguments: ", names >>
MsgPymongo == << "the python pymongo module is required" >>
MsgSort(original_sort_order) ==
  << "Invalid Sort parameter [", original_sort_order,
     "]. It must be either ASCENDING or DESCENDING" >>
MsgConnect(e) == << "unable to connect to database: ", e >>

\* ------------------------------------------------- _fix_sort_parameter
RECURSIVE fix_sort_loop(_, _, _)
\* the for loop of lines 143-152 from item i on; names are the bound globals
fix_sort_loop(items, i, names) ==
  IF i > Len(items) THEN [ kind |-> "return", items |-> items ]
  ELSE LET original_sort_order == items[i][2]
           sort_order == Upper(original_sort_order)
       IN IF sort_order = StrASCENDING
          THEN IF "ASCENDING" \in names
               THEN fix_sort_loop([items EXCEPT ![i][2] = ASCENDING], i + 1, names)
               ELSE [ kind |-> "raise", items |-> items, exc |-> "NameError" ]
          ELSE IF sort_order = StrDESCENDING
          THEN IF "DESCENDING" \in names
               THEN fix_sort_loop([items EXCEPT ![i][2] = DESCENDING], i + 1, names)
               ELSE [ kind |-> "raise", items |-> items, exc |-> "NameError" ]
          ELSE [ kind |-> "fail_json", items |-> items,
                 msg |-> MsgSort(original_sort_order) ]

\* _fix_sort_parameter(sort_parameter, module): returns the list it was given,
\* changed in place, or ends in fail_json or in an exception
_fix_sort_parameter(sort_parameter, names) ==
  IF sort_parameter = None THEN [ kind |-> "return", value |-> None ]
  ELSE LET r == fix_sort_loop(Get(sort_parameter), 1, names)
       IN IF r.kind = "return"
          THEN [ kind |-> "return", value |-> Some(r.items) ]
          ELSE [ r EXCEPT !.items = Some(r.items) ]

\* ------------------------------------------ the collection and find
Doc(i) == [ _id |-> i, name |-> i % 2, version |-> (i * 2) % 3,
            os |-> IF i % 3 = 0 THEN "windows" ELSE "linux" ]

\* the documents of accounts.software, in storage order
Collection == [ i \in 1..NumDocs |-> Doc(i) ]

Matches(d, query) == \A kv \in query : kv[1] \in DOMAIN d /\ d[kv[1]] = kv[2]

RECURSIVE Matching(_, _)
Matching(docs, query) ==
  IF docs = <<>> THEN <<>>
  ELSE IF Matches(Head(docs), query)
       THEN <<Head(docs)>> \o Matching(Tail(docs), query)
       ELSE Matching(Tail(docs), query)

RECURSIVE Precedes(_, _, _, _)
\* a sorts strictly before b by the keys of sort from key k on
Precedes(a, b, sort, k) ==
  IF k > Len(sort) THEN FALSE
  ELSE LET f == sort[k][1]
           direction == sort[k][2]
       IN IF a[f] = b[f] THEN Precedes(a, b, sort, k + 1)
          ELSE IF direction = ASCENDING THEN a[f] < b[f] ELSE a[f] > b[f]

RECURSIVE Insert(_, _, _)
Insert(d, s, sort) ==
  IF s = <<>> THEN <<d>>
  ELSE IF Precedes(d, Head(s), sort, 1) THEN <<d>> \o s
       ELSE <<Head(s)>> \o Insert(d, Tail(s), sort)

RECURSIVE SortDocs(_, _)
SortDocs(docs, sort) ==
  IF docs = <<>> THEN <<>>
  ELSE Insert(docs[Len(docs)], SortDocs(SubSeq(docs, 1, Len(docs) - 1), sort), sort)

Project(d, projection) ==
  IF projection = None THEN d
  ELSE LET p == Get(projection)
           keep == { k \in DOMAIN d : <<k, TRUE>> \in p }
                     \cup (IF <<"_id", FALSE>> \in p THEN {} ELSE { "_id" })
       IN [ k \in keep \cap DOMAIN d |-> d[k] ]

\* what the server returns for find(query, projection, skip, limit, sort):
\* limit 0 is no limit
FindResult(call) ==
  LET matched == Matching(Collection, call.query)
      ordered == IF call.sort = None THEN matched
                 ELSE SortDocs(matched, Get(call.sort))
      skipped == SubSeq(ordered, call.skip + 1, Len(ordered))
      limited == IF call.limit = 0 THEN skipped
                 ELSE SubSeq(skipped, 1, IF call.limit < Len(skipped)
                                         THEN call.limit ELSE Len(skipped))
  IN [ i \in DOMAIN limited |-> Project(limited[i], call.projection) ]

\* a find call with skip and limit exchanged
FindCallSwapped(p, sorted) ==
  [ database |-> Get(p.database), collection |-> Get(p.collection),
    query |-> p.query, projection |-> p.projection,
    skip |-> p.limit, limit |-> p.skip, sort |-> sorted ]

\* the arguments main gives to find (lines 189-193)
FindCall(p, sorted) ==
  [ database |-> Get(p.database), collection |-> Get(p.collection),
    query |-> p.query, projection |-> p.projection,
    skip |-> p.skip, limit |-> p.limit, sort |-> sorted ]

\* ----------------------------------------------------- the result envelope
\* json_util's extended encoding of one document: an ObjectId becomes {"$oid": ...}
Encode(d) == [ k \in DOMAIN d |-> IF k = "_id" THEN << "$oid", d[k] >> ELSE d[k] ]

\* an envelope that reports a change
ResultJsonChanged(cursor) == [ changed |-> TRUE, result |-> cursor ]

\* result_json of line 194
ResultJson(cursor) == [ changed |-> FALSE, result |-> cursor ]

\* json_util.dumps(result_json): the cursor is iterated to the end and every
\* document encoded
JsonUtilDumps(result_json) ==
  [ changed |-> result_json.changed,
    result |-> [ i \in DOMAIN result_json.result |-> Encode(result_json.result[i]) ] ]

\* ------------------------------------------------------------- exceptions
\* the classes "except ConnectionFailure" catches
ConnectionFailures == { "ConnectionFailure", "AutoReconnect" }

\* what becomes of an exception raised inside the try block: the except clause
\* evaluates the name ConnectionFailure first
ExceptClause(exc, names) ==
  IF "ConnectionFailure" \notin names
  THEN [ kind |-> "raise", exc |-> "NameError" ]
  ELSE IF exc.class \in ConnectionFailures
  THEN [ kind |-> "fail_json", msg |-> MsgConnect(exc.str) ]
  ELSE [ kind |-> "raise", exc |-> exc.class ]

\* a handler that tries again after a connection failure
AfterFailJsonRetry(msg) ==
  IF msg[1] = "unable to connect to database: " THEN "MongoClient" ELSE "exit"

\* where the invocation goes after fail_json(msg): fail_json calls sys.exit(1),
\* the statement after it is never reached
AfterFailJson(msg) == "exit"

\* a dependency check that never fails
DependencyAlwaysOk(found) == TRUE

\* the test of line 175
DependencyOk(found) == found

VARIABLES
  pc,             \* the step the invocation is at
  args,           \* the arguments the host runtime passes
  bound,          \* the driver names the module-level import bound
  client_class,   \* the class the name MongoClient is bound to
  pymongo_found,  \* the flag of lines 128-132
  params,         \* module.params, None before AnsibleModule returns
  sort,           \* main's local sort: None before line 185, else Some(value)
  calls,          \* the driver calls made so far: MongoClient(...) and find(...)
  find_call,      \* the arguments of the find call
  result,         \* the documents of the cursor find returned
  dumped,         \* the string json_util.dumps returned
  raised,         \* the exception a driver call raised
  stdout,         \* the documents written to standard output
  exit_code,      \* None while running
  uncaught        \* the class of the exception that ended the process

vars == << pc, args, bound, client_class, pymongo_found, params, sort, calls,
           find_call, result, dumped, raised, stdout, exit_code, uncaught >>

Init ==
  /\ pc = "import"
  /\ args \in Args
  /\ bound = {}
  /\ client_class = "unbound"
  /\ pymongo_found = FALSE
  /\ params = None
  /\ sort = None
  /\ calls = <<>>
  /\ find_call = None
  /\ result = None
  /\ dumped = None
  /\ raised = None
  /\ stdout = <<>>
  /\ exit_code = None
  /\ uncaught = None

\* module.fail_json(msg=...): prints the failure and calls sys.exit(1)
fail_json(msg) ==
  /\ stdout' = Append(stdout, [ failed |-> TRUE, msg |-> msg ])
  /\ exit_code' = IF AfterFailJson(msg) = "exit" THEN Some(1) ELSE exit_code
  /\ uncaught' = uncaught
  /\ pc' = AfterFailJson(msg)

\* an exception nothing catches: traceback on standard error, exit status 1
Uncaught(class) ==
  /\ uncaught' = Some(class)
  /\ exit_code' = Some(1)
  /\ stdout' = stdout
  /\ pc' = "exit"

\* how an invocation step ends
End(outcome) ==
  IF outcome.kind = "fail_json" THEN fail_json(outcome.msg) ELSE Uncaught(outcome.exc)

\* lines 117-132
Import ==
  /\ pc = "import"
  /\ \E failAt \in 0..Len(PrimaryImports), legacy \in BOOLEAN :
       /\ failAt = 0 => ~legacy
       /\ bound' = ImportBound(failAt, legacy)
       /\ client_class' = ImportClient(failAt, legacy)
       /\ pymongo_found' = ImportFound(failAt, legacy)
  /\ pc' = "AnsibleModule"
  /\ UNCHANGED << args, params, sort, calls, find_call, result, dumped, raised,
                  stdout, exit_code, uncaught >>

\* lines 161-173
ParseArguments ==
  /\ pc = "AnsibleModule"
  /\ LET p == ModuleParams(args)
     IN IF MissingRequired(p) # {}
        THEN /\ fail_json(MsgMissing(MissingRequired(p)))
             /\ params' = params
        ELSE /\ params' = Some(p)
             /\ pc' = "check_pymongo"
             /\ UNCHANGED << stdout, exit_code, uncaught >>
  /\ UNCHANGED << args, bound, client_class, pymongo_found, sort, calls,
                  find_call, result, dumped, raised >>

\* lines 175-176
CheckPymongo ==
  /\ pc = "check_pymongo"
  /\ IF DependencyOk(pymongo_found)
     THEN /\ pc' = "fix_sort"
          /\ UNCHANGED << stdout, exit_code, uncaught >>
     ELSE fail_json(MsgPymongo)
  /\ UNCHANGED << args, bound, client_class, pymongo_found, params, sort, calls,
                  find_call, result, dumped, raised >>

\* lines 178-185
FixSort ==
  /\ pc = "fix_sort"
  /\ LET r == _fix_sort_parameter(Get(params).sort, bound)
     IN IF r.kind = "return"
        THEN /\ sort' = Some(r.value)
             /\ params' = Some([ Get(params) EXCEPT !.sort = r.value ])
             /\ pc' = "MongoClient"
             /\ UNCHANGED << stdout, exit_code, uncaught >>
        ELSE /\ End(r)
             /\ params' = Some([ Get(params) EXCEPT !.sort = r.items ])
             /\ sort' = sort
  /\ UNCHANGED << args, bound, client_class, pymongo_found, calls, find_call,
                  result, dumped, raised >>

\* line 188: the constructor returns a client or raises ConnectionFailure
Connect ==
  /\ pc = "MongoClient"
  /\ IF client_class = "unbound"
     THEN /\ End(ExceptClause([ class |-> "NameError", str |-> "MongoClient" ], bound))
          /\ UNCHANGED << calls, raised >>
     ELSE /\ calls' = Append(calls, "MongoClient")
          /\ \/ /\ pc' = "find"
                /\ UNCHANGED << raised, stdout, exit_code, uncaught >>
             \/ \E m \in DriverMessages :
                  LET e == [ class |-> "ConnectionFailure", str |-> m ]
                  IN /\ raised' = Some(e)
                     /\ End(ExceptClause(e, bound))
  /\ UNCHANGED << args, bound, client_class, pymongo_found, params, sort,
                  find_call, result, dumped >>

\* lines 189-193: client[database][collection] raises InvalidName for an empty
\* name before find is called; the legacy pymongo.Connection knows the
\* projection of find as "fields", so its find may reject the keyword
\* projection with TypeError; otherwise find returns a cursor
Find ==
  /\ pc = "find"
  /\ LET p == Get(params)
     IN \/ /\ p.database = Some("") \/ p.collection = Some("")
           /\ LET e == [ class |-> "InvalidName", str |-> "cannot be empty" ]
              IN /\ raised' = Some(e)
                 /\ End(ExceptClause(e, bound))
           /\ UNCHANGED << calls, find_call, result >>
        \/ /\ p.database # Some("") /\ p.collection # Some("")
           /\ client_class = "pymongo.Connection"
           /\ LET e == [ class |-> "TypeError", str |-> "unexpected keyword argument" ]
              IN /\ raised' = Some(e)
                 /\ End(ExceptClause(e, bound))
           /\ calls' = Append(calls, "find")
           /\ find_call' = Some(FindCall(p, Get(sort)))
           /\ result' = result
        \/ /\ p.database # Some("") /\ p.collection # Some("")
           /\ calls' = Append(calls, "find")
           /\ find_call' = Some(FindCall(p, Get(sort)))
           /\ result' = Some(FindResult(FindCall(p, Get(sort))))
           /\ pc' = "dumps"
           /\ UNCHANGED << raised, stdout, exit_code, uncaught >>
  /\ UNCHANGED << args, bound, client_class, pymongo_found, params, sort, dumped >>

\* lines 194-195, json_util.dumps(result_json): iterating the cursor runs the
\* query, which may fail with a connection failure or an OperationFailure
Dumps ==
  /\ pc = "dumps"
  /\ IF "json_util" \notin bound
     THEN /\ End(ExceptClause([ class |-> "NameError", str |-> "json_util" ], bound))
          /\ UNCHANGED << dumped, raised >>
     ELSE \/ /\ dumped' = Some(JsonUtilDumps(ResultJson(Get(result))))
             /\ pc' = "print"
             /\ UNCHANGED << raised, stdout, exit_code, uncaught >>
          \/ \E e \in { [ class |-> "AutoReconnect", str |-> m ] : m \in DriverMessages }
                        \cup { [ class |-> "OperationFailure", str |-> "unknown operator" ] } :
               /\ raised' = Some(e)
               /\ End(ExceptClause(e, bound))
               /\ dumped' = dumped
  /\ UNCHANGED << args, bound, client_class, pymongo_found, params, sort, calls,
                  find_call, result >>

\* line 195, print(...)
PrintResult ==
  /\ pc = "print"
  /\ stdout' = Append(stdout, Get(dumped))
  /\ pc' = "sys.exit"
  /\ UNCHANGED << args, bound, client_class, pymongo_found, params, sort, calls,
                  find_call, result, dumped, raised, exit_code, uncaught >>

\* line 196, sys.exit(0)
SysExit ==
  /\ pc = "sys.exit"
  /\ exit_code' = Some(0)
  /\ pc' = "exit"
  /\ UNCHANGED << args, bound, client_class, pymongo_found, params, sort, calls,
                  find_call, result, dumped, raised, stdout, uncaught >>

Next ==
  \/ Import
  \/ ParseArguments
  \/ CheckPymongo
  \/ FixSort
  \/ Connect
  \/ Find
  \/ Dumps
  \/ PrintResult
  \/ SysExit

Spec == Init /\ [][Next]_vars

\* ================================================================ claims
\* ------------------------------------------------------- shared vocabulary
\* two characters that are the same letter, whatever their case
SameLetter(a, b) ==
  a = b \/ \E i \in DOMAIN LowerLetters : { a, b } = { LowerLetters[i], UpperLetters[i] }

EqIgnoreCase(s, t) ==
  Len(s) = Len(t) /\ \A i \in DOMAIN s : SameLetter(s[i], t[i])

ValidToken(t) == EqIgnoreCase(t, StrASCENDING) \/ EqIgnoreCase(t, StrDESCENDING)

\* the sort argument holds a direction token that is neither label
HasInvalidToken(so) == so # None /\ \E i \in DOMAIN Get(so) : ~ValidToken(Get(so)[i][2])

FirstInvalidToken(so) ==
  LET items == Get(so)
      i == CHOOSE k \in DOMAIN items :
             ~ValidToken(items[k][2]) /\ \A j \in 1..(k - 1) : ValidToken(items[j][2])
  IN items[i][2]

\* the reference normalisation of a sort argument whose tokens are all valid
SortReference(so) ==
  IF so = None THEN None
  ELSE Some([ i \in DOMAIN Get(so) |->
               << Get(so)[i][1],
                  IF EqIgnoreCase(Get(so)[i][2], StrASCENDING)
                  THEN ASCENDING ELSE DESCENDING >> ])

\* a required argument is absent from the invocation
RequiredAbsent ==
  (args.database = None /\ args.db = None) \/ args.collection = None

AbsentNames ==
  (IF args.database = None /\ args.db = None THEN { "database" } ELSE {})
    \cup (IF args.collection = None THEN { "collection" } ELSE {})

\* database or collection is given as the empty string
EmptyName ==
  args.collection = Some("") \/ (args.db = None /\ args.database = Some(""))

\* every driver name main and _fix_sort_parameter use is bound
DriverNames == { "json_util", "ASCENDING", "DESCENDING", "ConnectionFailure", "MongoClient" }
AllBound == DriverNames \subseteq bound

\* the invocation ended in fail_json with a message that starts with prefix
FailedWith(prefix) ==
  /\ pc = "exit" /\ exit_code = Some(1) /\ uncaught = None
  /\ Len(stdout) = 1 /\ "failed" \in DOMAIN stdout[1]
  /\ stdout[1].msg[1] = prefix

MissingRequiredField == FailedWith("missing required arguments: ")
DependencyMissing == FailedWith("the python pymongo module is required")
InvalidSortDirection == FailedWith("Invalid Sort parameter [")
ConnectionError == FailedWith("unable to connect to database: ")
\* a structured failure of any other kind
OperationError ==
  /\ pc = "exit" /\ exit_code = Some(1) /\ uncaught = None
  /\ Len(stdout) = 1 /\ "failed" \in DOMAIN stdout[1]
  /\ stdout[1].msg[1] \notin { "missing required arguments: ",
                               "the python pymongo module is required",
                               "Invalid Sort parameter [",
                               "unable to connect to database: " }

\* _fix_sort_parameter has been called and has ended
FixSortRan == params # None /\ pymongo_found /\ pc \notin { "check_pymongo", "fix_sort" }

\* the envelopes on standard output
Envelopes == { i \in DOMAIN stdout : "changed" \in DOMAIN stdout[i] }

\* C1: an invocation whose sort holds a token that is neither ASCENDING nor
\* DESCENDING (whatever the case) ends in InvalidSortDirection, the message
\* carrying the token as it was given, and makes no connection attempt and no
\* find call.
ClaimC1 ==
  (pc = "exit" /\ FixSortRan /\ HasInvalidToken(args.sort))
    => /\ InvalidSortDirection
       /\ stdout[1].msg[2] = FirstInvalidToken(args.sort)
       /\ calls = <<>>

\* C1 where every driver name is bound
ClaimC1WhenBound == AllBound => ClaimC1

\* C2: when database (or db) or collection is absent the invocation ends in
\* MissingRequiredField naming what is absent, and never connects or finds.
ThmC2 ==
  RequiredAbsent
    => /\ calls = <<>>
       /\ pc \in { "import", "AnsibleModule", "exit" }
       /\ pc = "exit" => (MissingRequiredField /\ stdout[1].msg[2] = AbsentNames)

WitC2 ==
  /\ pc = "exit" /\ pymongo_found /\ MissingRequiredField
  /\ args.database = None /\ args.db = None /\ args.collection # None

\* C3: an exception the driver raises while connecting, finding or
\* materialising the cursor ends the invocation in a structured failure:
\* ConnectionError with the driver's message for a connection failure,
\* OperationError for any other, never an uncaught exception.
ClaimC3 ==
  (pc = "exit" /\ raised # None /\ AllBound
     /\ Get(raised).class \in ConnectionFailures \cup { "OperationFailure" })
    => /\ uncaught = None
       /\ exit_code = Some(1)
       /\ IF Get(raised).class \in ConnectionFailures
          THEN ConnectionError /\ stdout[1].msg[2] = Get(raised).str
          ELSE OperationError

\* C4: _fix_sort_parameter returns None for None, and for a sort whose tokens
\* are all valid the same fields in the same order with each token replaced by
\* its enum value, whatever the case of the token.
ClaimC4 ==
  (FixSortRan /\ ~HasInvalidToken(args.sort))
    => sort = Some(SortReference(args.sort))

\* C4 where every driver name is bound
ClaimC4WhenBound == AllBound => ClaimC4

\* the matching documents, by their place in storage order
MatchingDocs(query) == { i \in 1..NumDocs : \A kv \in query : Doc(i)[kv[1]] = kv[2] }

\* the number of matching documents that come before document i in the order
\* of sort (storage order where sort does not decide)
Rank(i, query, so) ==
  Cardinality({ j \in MatchingDocs(query) :
    IF so = None THEN j < i
    ELSE \/ Precedes(Doc(j), Doc(i), Get(so), 1)
         \/ (~Precedes(Doc(i), Doc(j), Get(so), 1) /\ j < i) })

ArgQuery == IF args.query = None THEN {} ELSE Get(args.query)
ArgSkip == IF args.skip = None THEN 0 ELSE Get(args.skip)
ArgLimit == IF args.limit = None THEN 0 ELSE Get(args.limit)

\* how many documents the request selects
SelectedLen ==
  LET m == Cardinality(MatchingDocs(ArgQuery))
      rest == IF m > ArgSkip THEN m - ArgSkip ELSE 0
  IN IF ArgLimit = 0 THEN rest ELSE IF ArgLimit < rest THEN ArgLimit ELSE rest

\* C5: the one find call gets the request's filter, projection, skip, limit
\* and normalised sort unchanged; its result is the matching documents in sort
\* order without the first skip of them, cut to limit only when limit > 0; a
\* successful invocation writes exactly those documents.
ThmC5 ==
  /\ find_call # None
       => /\ Get(find_call).query = ArgQuery
          /\ Get(find_call).projection = args.projection
          /\ Get(find_call).skip = ArgSkip
          /\ Get(find_call).limit = ArgLimit
          /\ Get(find_call).sort = SortReference(args.sort)
          /\ Len(SelectSeq(calls, LAMBDA c : c = "find")) = 1
  /\ result # None
       => /\ Len(Get(result)) = SelectedLen
          /\ \A k \in DOMAIN Get(result) :
               \E i \in MatchingDocs(ArgQuery) :
                 /\ Rank(i, ArgQuery, SortReference(args.sort)) = ArgSkip + k - 1
                 /\ Get(result)[k] = Project(Doc(i), args.projection)
  /\ (pc = "exit" /\ exit_code = Some(0))
       => /\ result # None
          /\ Len(stdout[1].result) = SelectedLen
          /\ \A k \in DOMAIN Get(result) : stdout[1].result[k] = Encode(Get(result)[k])

WitC5 ==
  /\ pc = "exit" /\ exit_code = Some(0)
  /\ args.sort # None /\ Len(Get(args.sort)) = 2
  /\ Cardinality(MatchingDocs(ArgQuery)) > 0
  /\ ArgSkip >= Cardinality(MatchingDocs(ArgQuery))
  /\ stdout[1].result = <<>>

ClaimC8 ==
  (EmptyName /\ AllBound /\ ~HasInvalidToken(args.sort))
    => /\ calls = <<>>
       /\ pc = "exit" => MissingRequiredField

\* C9: one invocation makes at most one connection attempt and at most one
\* find call, the find call after the connection attempt, and once a driver
\* call has failed the invocation has ended.
ThmC9 ==
  /\ calls \in { <<>>, << "MongoClient" >>, << "MongoClient", "find" >> }
  /\ raised # None => pc = "exit"
  /\ pc \in { "dumps", "print", "sys.exit" } => calls = << "MongoClient", "find" >>

WitC9 ==
  /\ pc = "exit" /\ ConnectionError
  /\ raised # None /\ Get(raised).class = "AutoReconnect"
  /\ calls = << "MongoClient", "find" >>

\* C10: whenever pymongo_found is true, json_util, ASCENDING, DESCENDING,
\* ConnectionFailure and MongoClient are all bound.
ClaimC10 == pymongo_found => AllBound
====
